---- MODULE Spec2Model ----
(***************************************************************************)
(* pihole-operator: the DNSName reconciler, the canonical DNS record model *)
(* and the Pi-hole session client, as a state machine.                     *)
(*                                                                         *)
(* A Go string is a sequence of pieces: a host name or an address is one   *)
(* piece (neither may hold a separator), a separator or a digit of a       *)
(* formatted number is one piece each.  The wire encodings (fmt.Sprintf)   *)
(* and decodings (strings.Split, strconv.ParseInt) are computed on these   *)
(* sequences.  A Go pointer *int32 is a pair [addr, val]: addr = 0 is nil, *)
(* and two pointers are == iff their addr agree.                           *)
(***************************************************************************)
EXTENDS Integers, Sequences, FiniteSets, TLC

VARIABLES
    backendHosts,   \* Pi-hole config.dns.hosts: the lines "<ip> <domain>"
    backendCNames,  \* Pi-hole config.dns.cnameRecords: "<domain>,<target>[,<ttl>]"
    obj,            \* the DNSName object held by the resource store
    sid,            \* PiHole.sid, the session id held by the client
    pc,             \* position of the reconcile pass
    dnsName,        \* Reconcile's local copy of the object (r.Get)
    records,        \* Reconcile's / cleanupDNSRecord's local `records`
    idx,            \* position of the range loop over `records`
    newRecord,      \* Reconcile's local `newRecord`
    got,            \* the object as r.Get returned it to the running pass
    events,         \* events the running pass has emitted (r.Recorder.Event)
    nextAddr,       \* next free heap address of the pass (pointer identity)
    calls,          \* calls the running pass has issued so far
    http,           \* HTTP requests the running pass has sent so far
    hist,           \* the finished passes, oldest first
    failures,       \* number of injected failures so far
    fnSpec,         \* record-model harness: the DNSNameSpec argument
    fnLine,         \* record-model harness: a cnameRecords line to decode
    fnBuilt,        \* record-model harness: result of NewDNSRecordFromSpec
    fnDecoded,      \* record-model harness: record decoded from fnLine
    fnEq,           \* record-model harness: last Equals call and its result
    fnTrip,         \* record-model harness: fnBuilt's record encoded and decoded
    clLog,          \* client harness: the operations called on the client so far
    clExpired,      \* client harness: the backend has dropped the session
    drift,          \* the lines removed from the backend behind the controller's back
    backendOpen     \* Pi-hole has no password set: it grants a session without an id

vars == <<backendHosts, backendCNames, obj, sid, pc, dnsName, records, idx,
          newRecord, got, events, nextAddr, calls, http, hist, failures,
          fnSpec, fnLine, fnBuilt, fnDecoded, fnEq, fnTrip, clLog, clExpired,
          drift, backendOpen>>

ctlVars == <<backendHosts, backendCNames, obj, sid, pc, dnsName, records, idx,
             newRecord, got, events, calls, http, hist, failures, drift, backendOpen>>

fnVars == <<fnSpec, fnLine, fnBuilt, fnDecoded, fnEq, fnTrip>>

clVars == <<clLog, clExpired>>

-----------------------------------------------------------------------------
(* Bounds of the model *)

MaxPasses == 2      \* reconcile passes per behaviour
MaxBackend == 2     \* lines the backend holds initially (hosts + cnameRecords)
MaxFailures == 1    \* failing calls injected per behaviour
MaxOps == 3         \* operations called on the client per behaviour
MaxDrift == 1       \* lines removed behind the controller's back per behaviour

-----------------------------------------------------------------------------
(* Strings *)

foobar_de == <<"foobar.de">>
foobar4_com == <<"foobar4.com">>
homelab == <<"homelab">>
nas == <<"nas">>
ip_192_168_178_1 == <<"192.168.178.1">>
ip_10_0_0_2 == <<"10.0.0.2">>

Domains == {foobar_de, foobar4_com}
Targets == {homelab, nas}
Addresses == {ip_192_168_178_1, ip_10_0_0_2}
TTLs == {0, 500}

DigitChars == <<"0","1","2","3","4","5","6","7","8","9">>

Int32Max == 2147483647
Int32Min == 0 - Int32Max - 1

RECURSIVE FormatNat(_)
FormatNat(n) ==
    IF n < 10 THEN <<DigitChars[n + 1]>>
    ELSE FormatNat(n \div 10) \o <<DigitChars[(n % 10) + 1]>>

\* fmt's %d verb
FormatInt(n) == IF n < 0 THEN <<"-">> \o FormatNat(0 - n) ELSE FormatNat(n)

DigitValue(c) == CHOOSE d \in 0..9 : DigitChars[d + 1] = c

IsDigit(c) == \E d \in 0..9 : DigitChars[d + 1] = c

RECURSIVE ParseNat(_)
ParseNat(s) ==
    IF Len(s) = 0 THEN 0
    ELSE 10 * ParseNat(SubSeq(s, 1, Len(s) - 1)) + DigitValue(s[Len(s)])

\* strconv.ParseInt(s, 10, 32): a sign, then one or more digits, within int32
ParseInt(s) ==
    LET signed == Len(s) > 0 /\ s[1] \in {"-", "+"}
        digits == IF signed THEN SubSeq(s, 2, Len(s)) ELSE s
        wellFormed == Len(digits) > 0 /\ \A i \in 1..Len(digits) : IsDigit(digits[i])
        n == IF wellFormed
             THEN (IF signed /\ s[1] = "-" THEN 0 - ParseNat(digits) ELSE ParseNat(digits))
             ELSE 0
    IN  IF wellFormed /\ n >= Int32Min /\ n <= Int32Max
        THEN [ok |-> TRUE, val |-> n]
        ELSE [ok |-> FALSE, val |-> 0]

\* strings.Split(s, sep) for a separator of one piece
RECURSIVE Split(_, _)
Split(s, sep) ==
    IF \E i \in 1..Len(s) : s[i] = sep
    THEN LET i == CHOOSE j \in 1..Len(s) :
                      s[j] = sep /\ \A k \in 1..(j - 1) : s[k] # sep
         IN  <<SubSeq(s, 1, i - 1)>> \o Split(SubSeq(s, i + 1, Len(s)), sep)
    ELSE <<s>>

-----------------------------------------------------------------------------
(* Pointers and the record model *)

NilPtr == [addr |-> 0, val |-> 0]

NewPtr(a, v) == [addr |-> a, val |-> v]

IsNil(p) == p.addr = 0

\* Go's == on two *int32: the addresses are compared, not the pointees
PtrEq(p, q) == p.addr = q.addr

TypeA == "A"
TypeCName == "CNAME"
RecordTypes == {TypeA, TypeCName, "MX"}

NoStr == [nil |-> TRUE, val |-> <<>>]

SomeStr(s) == [nil |-> FALSE, val |-> s]

NoRecord == [Domain |-> <<>>, Target |-> <<>>, Type |-> "", TTL |-> NilPtr]

DNSRecord(domain, target, type, ttl) ==
    [Domain |-> domain, Target |-> target, Type |-> type, TTL |-> ttl]

DNSNameSpec(type, domain, target, targetIP, ttl) ==
    [Type |-> type, Domain |-> domain, Target |-> target,
     TargetIP |-> targetIP, TTL |-> ttl]

\* NewDNSRecordFromSpec had it left the TTL out of the record
NewDNSRecordFromSpec_NoTTL(spec) ==
    IF spec.Type = TypeA /\ ~spec.TargetIP.nil
    THEN [err |-> "", rec |-> DNSRecord(spec.Domain, spec.TargetIP.val, spec.Type, NilPtr)]
    ELSE IF spec.Type = TypeCName /\ ~spec.Target.nil
    THEN [err |-> "", rec |-> DNSRecord(spec.Domain, spec.Target.val, spec.Type, NilPtr)]
    ELSE [err |-> "invalid", rec |-> NoRecord]

\* NewDNSRecordFromSpec had it not checked the CNAME target for nil
NewDNSRecordFromSpec_NoTargetCheck(spec) ==
    IF spec.Type = TypeA
    THEN IF spec.TargetIP.nil
         THEN [err |-> "targetIP is required for A records", rec |-> NoRecord]
         ELSE [err |-> "",
               rec |-> DNSRecord(spec.Domain, spec.TargetIP.val, spec.Type, spec.TTL)]
    ELSE IF spec.Type = TypeCName
    THEN [err |-> "",
          rec |-> DNSRecord(spec.Domain, spec.Target.val, spec.Type, spec.TTL)]
    ELSE [err |-> "invalid DNS record type", rec |-> NoRecord]

NewDNSRecordFromSpec(spec) ==
    IF spec.Type = TypeA
    THEN IF spec.TargetIP.nil
         THEN [err |-> "targetIP is required for A records", rec |-> NoRecord]
         ELSE [err |-> "",
               rec |-> DNSRecord(spec.Domain, spec.TargetIP.val, spec.Type, spec.TTL)]
    ELSE IF spec.Type = TypeCName
    THEN IF spec.Target.nil
         THEN [err |-> "target is required for CNAME records", rec |-> NoRecord]
         ELSE [err |-> "",
               rec |-> DNSRecord(spec.Domain, spec.Target.val, spec.Type, spec.TTL)]
    ELSE [err |-> "invalid DNS record type", rec |-> NoRecord]

\* Equals had it compared the domains only
Equals_DomainOnly(r, other) == r.Domain = other.Domain

Equals(r, other) ==
    IF r.Domain # other.Domain THEN FALSE
    ELSE IF r.Target # other.Target THEN FALSE
    ELSE IF r.Type # other.Type THEN FALSE
    ELSE IF ~PtrEq(r.TTL, other.TTL) THEN FALSE
    ELSE TRUE

-----------------------------------------------------------------------------
(* Wire encodings of the Pi-hole client *)

\* CreateDNSCNAMERecord: "%s,%s" or "%s,%s,%d"
CNameKey(domain, target, ttl) ==
    IF ~IsNil(ttl)
    THEN domain \o <<",">> \o target \o <<",">> \o FormatInt(ttl.val)
    ELSE domain \o <<",">> \o target

\* CreateDNSARecord had it put the domain first
AKey_DomainFirst(domain, ip) == domain \o <<" ">> \o ip

\* CreateDNSARecord: "%s %s" of ip, domain
AKey(domain, ip) == ip \o <<" ">> \o domain

\* CreateDNSRecord(record): the collection and key of the PUT
CreateDNSRecord(record) ==
    IF record.Type = TypeA
    THEN [err |-> FALSE, path |-> "hosts", key |-> AKey(record.Domain, record.Target)]
    ELSE IF record.Type = TypeCName
    THEN [err |-> FALSE, path |-> "cnameRecords",
          key |-> CNameKey(record.Domain, record.Target, record.TTL)]
    ELSE [err |-> TRUE, path |-> "", key |-> <<>>]

\* DeleteDNSRecord(record): the collection and key of the DELETE
DeleteDNSRecord(record) ==
    IF record.Type = TypeA
    THEN [err |-> FALSE, path |-> "hosts",
          key |-> record.Target \o <<" ">> \o record.Domain]
    ELSE IF record.Type = TypeCName
    THEN [err |-> FALSE, path |-> "cnameRecords",
          key |-> IF ~IsNil(record.TTL)
                  THEN record.Domain \o <<",">> \o record.Target \o <<",">>
                           \o FormatInt(record.TTL.val)
                  ELSE record.Domain \o <<",">> \o record.Target]
    ELSE [err |-> TRUE, path |-> "", key |-> <<>>]

\* getCNames, the body of the loop over the listed lines: status is "ok",
\* "err" (ParseInt failed) or "panic" (parts[1] out of range); a TTL segment
\* is stored in a fresh int32 whose address is addr
DecodeCName(line, addr) ==
    LET parts == Split(line, ",")
        x == IF Len(parts) = 3 THEN ParseInt(parts[3]) ELSE [ok |-> TRUE, val |-> 0]
    IN  IF Len(parts) = 3 /\ ~x.ok
        THEN [status |-> "err", rec |-> NoRecord, next |-> addr]
        ELSE IF Len(parts) < 2
        THEN [status |-> "panic", rec |-> NoRecord, next |-> addr]
        ELSE [status |-> "ok",
              rec |-> DNSRecord(parts[1], parts[2], TypeCName,
                                IF Len(parts) = 3 THEN NewPtr(addr, x.val) ELSE NilPtr),
              next |-> IF Len(parts) = 3 THEN addr + 1 ELSE addr]

\* getARecords, the body of the loop over the listed lines
DecodeA(line) ==
    LET parts == Split(line, " ")
    IN  IF Len(parts) < 2
        THEN [status |-> "panic", rec |-> NoRecord]
        ELSE [status |-> "ok", rec |-> DNSRecord(parts[2], parts[1], TypeA, NilPtr)]

RECURSIVE DecodeCNames(_, _)
DecodeCNames(lines, addr) ==
    IF Len(lines) = 0 THEN [status |-> "ok", recs |-> <<>>, next |-> addr]
    ELSE LET d == DecodeCName(Head(lines), addr)
         IN  IF d.status # "ok"
             THEN [status |-> d.status, recs |-> <<>>, next |-> addr]
             ELSE LET rest == DecodeCNames(Tail(lines), d.next)
                  IN  IF rest.status # "ok" THEN rest
                      ELSE [status |-> "ok", recs |-> <<d.rec>> \o rest.recs,
                            next |-> rest.next]

RECURSIVE DecodeAs(_)
DecodeAs(lines) ==
    IF Len(lines) = 0 THEN [status |-> "ok", recs |-> <<>>]
    ELSE LET d == DecodeA(Head(lines))
             rest == DecodeAs(Tail(lines))
         IN  IF d.status # "ok" THEN [status |-> d.status, recs |-> <<>>]
             ELSE IF rest.status # "ok" THEN rest
             ELSE [status |-> "ok", recs |-> <<d.rec>> \o rest.recs]

-----------------------------------------------------------------------------
(* The resource store and the pass-local state *)

NoTTL == [present |-> FALSE, val |-> 0]

SomeTTL(v) == [present |-> TRUE, val |-> v]

\* The declared specs the store may hold: the A and the CNAME sample, each
\* with and without a ttl, then each without the operand its kind requires,
\* then a kind that is neither
StoredSpecs ==
    {DNSNameSpec(TypeA, foobar4_com, NoStr, SomeStr(ip_192_168_178_1), ttl) :
        ttl \in {NoTTL, SomeTTL(500)}}
    \cup {DNSNameSpec(TypeCName, foobar_de, SomeStr(homelab), NoStr, ttl) :
        ttl \in {NoTTL, SomeTTL(500)}}
    \cup {DNSNameSpec(TypeA, foobar4_com, NoStr, NoStr, NoTTL),
          DNSNameSpec(TypeCName, foobar_de, NoStr, NoStr, NoTTL),
          DNSNameSpec("MX", foobar_de, SomeStr(homelab), NoStr, NoTTL)}

\* r.Get decodes the stored object into a fresh DNSName: an optional ttl
\* becomes a pointer to a newly allocated int32
DecodeSpec(stored, addr) ==
    DNSNameSpec(stored.Type, stored.Domain, stored.Target, stored.TargetIP,
                IF stored.TTL.present THEN NewPtr(addr, stored.TTL.val) ELSE NilPtr)

NoSpec == DNSNameSpec("", <<>>, NoStr, NoStr, NilPtr)

NoDNSName == [found |-> FALSE, spec |-> NoSpec, finalizer |-> FALSE,
              deletion |-> FALSE, conditions |-> <<>>]

Condition(type) == [type |-> type, status |-> "True", reason |-> type]

Call(op, rec, key, status) == [op |-> op, rec |-> rec, key |-> key, status |-> status]

Request(method, path, key, s) == [method |-> method, path |-> path, key |-> key, sid |-> s]

IssuedSid == "sid-1"

\* The session id in the body of a successful POST /auth: with no password
\* set Pi-hole answers valid = true and sid = null, which decodes to ""
Granted == IF backendOpen THEN "" ELSE IssuedSid

\* The outcomes a call may have: a failure is injected while the budget lasts
Outcomes == IF failures < MaxFailures THEN {"ok", "bad"} ELSE {"ok"}

AuthOutcomes == IF sid = "" THEN Outcomes ELSE {"ok"}

\* The answers the backend may give to POST /auth: the session it issues, a
\* transport error, another status than 200, a body that does not decode,
\* a body with valid = false
AuthResponse(transport, status, decodable, valid, s) ==
    [transport |-> transport, status |-> status, decodable |-> decodable,
     valid |-> valid, sid |-> s]

SessionIssued == AuthResponse("ok", 200, TRUE, TRUE, Granted)

AuthResponses ==
    {SessionIssued,
     AuthResponse("err", 0, FALSE, FALSE, ""),
     AuthResponse("ok", 401, TRUE, FALSE, ""),
     AuthResponse("ok", 200, FALSE, FALSE, ""),
     AuthResponse("ok", 200, TRUE, FALSE, "")}

\* authenticate: the error it returns and the session id held afterwards,
\* s being the one held before
authenticate(s, resp) ==
    IF resp.transport # "ok" THEN [err |-> TRUE, sid |-> s]
    ELSE IF resp.status # 200 THEN [err |-> TRUE, sid |-> s]
    ELSE IF ~resp.decodable THEN [err |-> TRUE, sid |-> s]
    ELSE IF ~resp.valid THEN [err |-> TRUE, sid |-> s]
    ELSE [err |-> FALSE, sid |-> resp.sid]

\* doAuthenticatedRequest had it authenticated on every call
doAuthenticatedRequest_Reauthenticates(s, auth, method, path, key) ==
    IF auth = "ok"
    THEN [err |-> FALSE, sid |-> Granted,
          authCalls |-> <<Call("Authenticate", NoRecord, <<>>, "ok")>>,
          reqs |-> <<Request("POST", "auth", <<>>, s),
                     Request(method, path, key, Granted)>>]
    ELSE [err |-> TRUE, sid |-> s,
          authCalls |-> <<Call("Authenticate", NoRecord, <<>>, "err")>>,
          reqs |-> <<Request("POST", "auth", <<>>, s)>>]

\* doAuthenticatedRequest had it sent the request after a failed authenticate
doAuthenticatedRequest_SendsAnyway(s, auth, method, path, key) ==
    IF s = ""
    THEN IF auth = "ok"
         THEN [err |-> FALSE, sid |-> Granted,
               authCalls |-> <<Call("Authenticate", NoRecord, <<>>, "ok")>>,
               reqs |-> <<Request("POST", "auth", <<>>, ""),
                          Request(method, path, key, Granted)>>]
         ELSE [err |-> FALSE, sid |-> "",
               authCalls |-> <<Call("Authenticate", NoRecord, <<>>, "err")>>,
               reqs |-> <<Request("POST", "auth", <<>>, ""),
                          Request(method, path, key, "")>>]
    ELSE [err |-> FALSE, sid |-> s, authCalls |-> <<>>,
          reqs |-> <<Request(method, path, key, s)>>]

\* doAuthenticatedRequest with authenticate and doRequest: the session id
\* held afterwards and the requests sent; err is authenticate's failure, in
\* which case the request itself is not sent
doAuthenticatedRequest(s, auth, method, path, key) ==
    IF s = ""
    THEN IF auth = "ok"
         THEN [err |-> FALSE, sid |-> Granted, authCalls |-> <<Call("Authenticate", NoRecord, <<>>, "ok")>>,
               reqs |-> <<Request("POST", "auth", <<>>, ""),
                          Request(method, path, key, Granted)>>]
         ELSE [err |-> TRUE, sid |-> "", authCalls |-> <<Call("Authenticate", NoRecord, <<>>, "err")>>,
               reqs |-> <<Request("POST", "auth", <<>>, "")>>]
    ELSE [err |-> FALSE, sid |-> s, authCalls |-> <<>>,
          reqs |-> <<Request(method, path, key, s)>>]

\* Close had it dropped the session id once the DELETE was answered
Close_ClearsSid(s, auth, resp) ==
    LET a == doAuthenticatedRequest(s, auth, "DELETE", "auth", <<>>)
    IN  [err |-> a.err \/ resp = "bad", sid |-> IF a.err THEN a.sid ELSE "",
         authCalls |-> a.authCalls, reqs |-> a.reqs]

\* Close: DELETE /auth through doAuthenticatedRequest; resp is "ok" (status
\* 200) or "bad" (a transport error or another status)
Close(s, auth, resp) ==
    LET a == doAuthenticatedRequest(s, auth, "DELETE", "auth", <<>>)
    IN  [err |-> a.err \/ resp = "bad", sid |-> a.sid,
         authCalls |-> a.authCalls, reqs |-> a.reqs]

\* GetDNSRecords had it returned the address records it holds when getCNames
\* fails
GetDNSRecords_Partial(s, lo, hosts, cnames, addr) ==
    LET a1 == doAuthenticatedRequest(s, IF lo = "authBad" THEN "bad" ELSE "ok",
                                     "GET", "hosts", <<>>)
        as == DecodeAs(hosts)
        a2 == doAuthenticatedRequest(a1.sid, "ok", "GET", "cnameRecords", <<>>)
        cs == DecodeCNames(cnames, addr)
        failed(recs, cls, reqs) == [err |-> TRUE, recs |-> recs, next |-> addr,
                                    sid |-> a1.sid, authCalls |-> cls, reqs |-> reqs]
    IN  IF a1.err \/ lo = "hostsBad" \/ as.status # "ok"
        THEN failed(<<>>, a1.authCalls, a1.reqs)
        ELSE IF lo = "cnamesBad" \/ cs.status # "ok"
        THEN failed(as.recs, a1.authCalls \o a2.authCalls, a1.reqs \o a2.reqs)
        ELSE [err |-> FALSE, recs |-> as.recs \o cs.recs, next |-> cs.next,
              sid |-> a2.sid, authCalls |-> a1.authCalls \o a2.authCalls,
              reqs |-> a1.reqs \o a2.reqs]

\* GetDNSRecords had it answered from the records the pass before observed
GetDNSRecords_Cached(s, lo, hosts, cnames, addr) ==
    LET a1 == doAuthenticatedRequest(s, IF lo = "authBad" THEN "bad" ELSE "ok",
                                     "GET", "hosts", <<>>)
        as == DecodeAs(hosts)
        a2 == doAuthenticatedRequest(a1.sid, "ok", "GET", "cnameRecords", <<>>)
        cs == DecodeCNames(cnames, addr)
        cached == hist # <<>> /\ hist[Len(hist)].records # <<>>
        failed(cls, reqs) == [err |-> TRUE, recs |-> <<>>, next |-> addr,
                              sid |-> a1.sid, authCalls |-> cls, reqs |-> reqs]
    IN  IF a1.err \/ lo = "hostsBad" \/ as.status # "ok"
        THEN failed(a1.authCalls, a1.reqs)
        ELSE IF lo = "cnamesBad" \/ cs.status # "ok"
        THEN failed(a1.authCalls \o a2.authCalls, a1.reqs \o a2.reqs)
        ELSE [err |-> FALSE,
              recs |-> IF cached THEN hist[Len(hist)].records ELSE as.recs \o cs.recs,
              next |-> cs.next,
              sid |-> a2.sid, authCalls |-> a1.authCalls \o a2.authCalls,
              reqs |-> a1.reqs \o a2.reqs]

\* GetDNSRecords: getARecords, then getCNames, concatenated.  lo is "ok",
\* "authBad" (authenticate fails), "hostsBad" or "cnamesBad" (that GET ends
\* in a transport error, another status than 200 or an undecodable body)
GetDNSRecords(s, lo, hosts, cnames, addr) ==
    LET a1 == doAuthenticatedRequest(s, IF lo = "authBad" THEN "bad" ELSE "ok",
                                     "GET", "hosts", <<>>)
        as == DecodeAs(hosts)
        a2 == doAuthenticatedRequest(a1.sid, "ok", "GET", "cnameRecords", <<>>)
        cs == DecodeCNames(cnames, addr)
        failed(cls, reqs) == [err |-> TRUE, recs |-> <<>>, next |-> addr,
                              sid |-> a1.sid, authCalls |-> cls, reqs |-> reqs]
    IN  IF a1.err \/ lo = "hostsBad" \/ as.status # "ok"
        THEN failed(a1.authCalls, a1.reqs)
        ELSE IF lo = "cnamesBad" \/ cs.status # "ok"
        THEN failed(a1.authCalls \o a2.authCalls, a1.reqs \o a2.reqs)
        ELSE [err |-> FALSE, recs |-> as.recs \o cs.recs, next |-> cs.next,
              sid |-> a2.sid, authCalls |-> a1.authCalls \o a2.authCalls,
              reqs |-> a1.reqs \o a2.reqs]

ListOutcomes ==
    IF failures < MaxFailures
    THEN {"ok", "hostsBad", "cnamesBad"} \cup (IF sid = "" THEN {"authBad"} ELSE {})
    ELSE {"ok"}

Remove(lines, key) == SelectSeq(lines, LAMBDA l : l # key)

ClHolds(lines, key) == \E k \in 1..Len(lines) : lines[k] = key

\* The end of a pass: its summary joins hist, its locals are dropped
EndPass(res, cs, hs, g, dn, recs, nr, evs) ==
    /\ hist' = Append(hist, [result |-> res, calls |-> cs, got |-> g, stored |-> obj',
                             final |-> dn, records |-> recs, newRecord |-> nr,
                             events |-> evs])
    /\ pc' = "idle"
    /\ dnsName' = NoDNSName
    /\ got' = NoDNSName
    /\ records' = <<>>
    /\ idx' = 0
    /\ newRecord' = NoRecord
    /\ events' = <<>>
    /\ calls' = <<>>
    /\ http' = <<>>
    /\ nextAddr' = 1

\* Reconcile had it logged the error and returned nil
Fail_Swallowed(cs, hs) == EndPass("ok", cs, hs, got, dnsName, records, newRecord, events)

\* Reconcile had it recorded the Created condition and event before
\* returning the error
Fail_Narrated(cs, hs) ==
    EndPass("err", cs, hs, got,
            [dnsName EXCEPT !.conditions = Append(dnsName.conditions, Condition("Created"))],
            records, newRecord, Append(events, "Created"))

\* Reconcile at a `return ctrl.Result{}, err`
Fail(cs, hs) == EndPass("err", cs, hs, got, dnsName, records, newRecord, events)

\* Reconcile had it returned the error where it returns nil
Succeed_AsError(cs, hs) == EndPass("err", cs, hs, got, dnsName, records, newRecord, events)

\* Reconcile at a `return ctrl.Result{}, nil`
Succeed(cs, hs) == EndPass("ok", cs, hs, got, dnsName, records, newRecord, events)

-----------------------------------------------------------------------------
(* Reconcile.  An action runs the pass from one call to the store or to    *)
(* the backend up to the next one, or to the return.                       *)

\* Reconcile's loop had it not deleted the records that differ
Scan_NoDelete(recs, desired, i) ==
    IF \E j \in i..Len(recs) : recs[j].Domain = desired.Domain /\ Equals(recs[j], desired)
    THEN [at |-> "return", idx |-> 0]
    ELSE [at |-> "create", idx |-> 0]

\* Reconcile's loop had it not compared the domains
Scan_AnyDomain(recs, desired, i) ==
    IF i > Len(recs) THEN [at |-> "create", idx |-> 0]
    ELSE IF Equals(recs[i], desired)
    THEN [at |-> "return", idx |-> 0]
    ELSE [at |-> "delete", idx |-> i]

\* Reconcile's loop over the observed records from position i on, up to
\* what it does next: it returns at a record that equals the desired one,
\* deletes the record at idx, or leaves the loop to create
RECURSIVE Scan(_, _, _)
Scan(recs, desired, i) ==
    IF i > Len(recs) THEN [at |-> "create", idx |-> 0]
    ELSE IF recs[i].Domain = desired.Domain
    THEN IF Equals(recs[i], desired)
         THEN [at |-> "return", idx |-> 0]
         ELSE [at |-> "delete", idx |-> i]
    ELSE Scan(recs, desired, i + 1)

\* Reconcile had its gate run the cleanup for every resource under deletion,
\* holding the finalizer token or not
Load_CleanupWithoutToken ==
    /\ pc = "idle"
    /\ Len(hist) < MaxPasses
    /\ UNCHANGED <<backendHosts, backendCNames, obj, sid, fnVars, clVars, drift, backendOpen>>
    /\ \E o \in Outcomes :
          IF o = "bad"
          THEN /\ failures' = failures + 1
               /\ Fail(<<Call("Get", NoRecord, <<>>, "err")>>, <<>>)
          ELSE IF ~obj.exists
          THEN /\ UNCHANGED failures
               /\ Succeed(<<Call("Get", NoRecord, <<>>, "notfound")>>, <<>>)
          ELSE LET loaded == [found |-> TRUE,
                              spec |-> DecodeSpec(obj.spec, 1),
                              finalizer |-> obj.finalizer,
                              deletion |-> obj.deletion,
                              conditions |-> obj.conditions]
                   pending == [loaded EXCEPT !.conditions =
                                  Append(loaded.conditions, Condition("Pending"))]
                   got1 == <<Call("Get", NoRecord, <<>>, "ok")>>
               IN  /\ UNCHANGED failures
                   /\ IF FALSE
                      THEN EndPass("ok", got1, <<>>, loaded, pending, <<>>, NoRecord, <<>>)
                      ELSE /\ got' = loaded
                           /\ dnsName' = pending
                           /\ nextAddr' = IF obj.spec.TTL.present THEN 2 ELSE 1
                           /\ calls' = got1
                           /\ pc' = IF loaded.deletion THEN "cleanupList"
                                    ELSE IF loaded.finalizer THEN "list"
                                    ELSE "addFinalizer"
                           /\ UNCHANGED <<records, idx, newRecord, events, http, hist>>

\* Reconcile, r.Get, the Pending condition and the finalizer gate up to the
\* call it makes next
Load ==
    /\ pc = "idle"
    /\ Len(hist) < MaxPasses
    /\ UNCHANGED <<backendHosts, backendCNames, obj, sid, fnVars, clVars, drift, backendOpen>>
    /\ \E o \in Outcomes :
          IF o = "bad"
          THEN /\ failures' = failures + 1
               /\ Fail(<<Call("Get", NoRecord, <<>>, "err")>>, <<>>)
          ELSE IF ~obj.exists
          THEN /\ UNCHANGED failures
               /\ Succeed(<<Call("Get", NoRecord, <<>>, "notfound")>>, <<>>)
          ELSE LET loaded == [found |-> TRUE,
                              spec |-> DecodeSpec(obj.spec, 1),
                              finalizer |-> obj.finalizer,
                              deletion |-> obj.deletion,
                              conditions |-> obj.conditions]
                   pending == [loaded EXCEPT !.conditions =
                                  Append(loaded.conditions, Condition("Pending"))]
                   got1 == <<Call("Get", NoRecord, <<>>, "ok")>>
               IN  /\ UNCHANGED failures
                   /\ IF loaded.deletion /\ ~loaded.finalizer
                      THEN EndPass("ok", got1, <<>>, loaded, pending, <<>>, NoRecord, <<>>)
                      ELSE /\ got' = loaded
                           /\ dnsName' = pending
                           /\ nextAddr' = IF obj.spec.TTL.present THEN 2 ELSE 1
                           /\ calls' = got1
                           /\ pc' = IF loaded.deletion THEN "cleanupList"
                                    ELSE IF loaded.finalizer THEN "list"
                                    ELSE "addFinalizer"
                           /\ UNCHANGED <<records, idx, newRecord, events, http, hist>>

\* Reconcile's finalizer gate had it gone on after a failed r.Update
AddFinalizer_IgnoreError ==
    /\ pc = "addFinalizer"
    /\ UNCHANGED <<backendHosts, backendCNames, sid, fnVars, clVars, drift, backendOpen>>
    /\ \E o \in Outcomes :
          /\ failures' = IF o = "bad" THEN failures + 1 ELSE failures
          /\ obj' = IF o = "bad" THEN obj ELSE [obj EXCEPT !.finalizer = TRUE]
          /\ dnsName' = [dnsName EXCEPT !.finalizer = TRUE]
          /\ calls' = Append(calls, Call("Update", NoRecord, <<>>,
                                         IF o = "bad" THEN "err" ELSE "ok"))
          /\ pc' = "list"
          /\ UNCHANGED <<records, idx, newRecord, got, events, nextAddr, http, hist>>

\* Reconcile, the finalizer gate: the token is added and persisted
AddFinalizer ==
    /\ pc = "addFinalizer"
    /\ UNCHANGED <<backendHosts, backendCNames, sid, fnVars, clVars, drift, backendOpen>>
    /\ \E o \in Outcomes :
          IF o = "bad"
          THEN /\ failures' = failures + 1
               /\ UNCHANGED obj
               /\ EndPass("err", Append(calls, Call("Update", NoRecord, <<>>, "err")),
                          http, got, [dnsName EXCEPT !.finalizer = TRUE],
                          records, newRecord, events)
          ELSE /\ obj' = [obj EXCEPT !.finalizer = TRUE]
               /\ dnsName' = [dnsName EXCEPT !.finalizer = TRUE]
               /\ calls' = Append(calls, Call("Update", NoRecord, <<>>, "ok"))
               /\ pc' = "list"
               /\ UNCHANGED <<records, idx, newRecord, got, events, nextAddr,
                              http, hist, failures>>

\* Reconcile, GetDNSRecords, then NewDNSRecordFromSpec, then the loop up to
\* its first delete
ListAndBuild ==
    /\ pc = "list"
    /\ UNCHANGED <<backendHosts, backendCNames, obj, fnVars, clVars, drift, backendOpen>>
    /\ \E lo \in ListOutcomes :
       \E l \in {GetDNSRecords(sid, lo, backendHosts, backendCNames, nextAddr)} :
          LET listed == calls \o l.authCalls
                          \o <<Call("List", NoRecord, <<>>, IF l.err THEN "err" ELSE "ok")>>
              built == NewDNSRecordFromSpec(dnsName.spec)
              cs == Append(listed, Call("FromSpec", built.rec, <<>>,
                                        IF built.err = "" THEN "ok" ELSE "err"))
              next == Scan(l.recs, built.rec, 1)
          IN  /\ sid' = l.sid
              /\ failures' = IF lo = "ok" THEN failures ELSE failures + 1
              /\ IF l.err
                 THEN Fail(listed, http \o l.reqs)
                 ELSE IF built.err # ""
                 THEN EndPass("err", cs, http \o l.reqs, got, dnsName, l.recs,
                              newRecord, events)
                 ELSE IF next.at = "return"
                 THEN EndPass("ok", cs, http \o l.reqs, got, dnsName, l.recs,
                              built.rec, events)
                 ELSE /\ records' = l.recs
                      /\ newRecord' = built.rec
                      /\ idx' = next.idx
                      /\ nextAddr' = l.next
                      /\ calls' = cs
                      /\ http' = http \o l.reqs
                      /\ pc' = next.at
                      /\ UNCHANGED <<dnsName, got, events, hist>>

\* The delete of one record had the loop logged a failed DeleteDNSRecord and
\* gone on to the next record
DeleteCall_KeepGoing(record, next) ==
    LET d == DeleteDNSRecord(record)
    IN  \E auth \in AuthOutcomes :
        \E resp \in (IF auth = "ok" THEN Outcomes ELSE {"ok"}) :
           LET a == doAuthenticatedRequest(sid, auth, "DELETE", d.path, d.key)
               bad == d.err \/ a.err \/ resp = "bad"
               cs == calls \o a.authCalls
                       \o <<Call("Delete", record, d.key, IF bad THEN "err" ELSE "ok")>>
           IN  /\ sid' = a.sid
               /\ failures' = IF bad THEN failures + 1 ELSE failures
               /\ backendHosts' = IF ~bad /\ d.path = "hosts"
                                  THEN Remove(backendHosts, d.key)
                                  ELSE backendHosts
               /\ backendCNames' = IF ~bad /\ d.path = "cnameRecords"
                                   THEN Remove(backendCNames, d.key)
                                   ELSE backendCNames
               /\ IF next.at = "return"
                  THEN Succeed(cs, http \o a.reqs)
                  ELSE /\ calls' = cs
                       /\ http' = http \o a.reqs
                       /\ idx' = next.idx
                       /\ pc' = next.at
                       /\ UNCHANGED <<dnsName, records, newRecord, got,
                                      events, nextAddr, hist>>

\* DeleteDNSRecord(record), called by Reconcile's loop or cleanupDNSRecord's;
\* after it the pass returns the error, returns (next.at = "return") or
\* goes on to the call next.at at position next.idx
DeleteCall(record, next) ==
    LET d == DeleteDNSRecord(record)
    IN  IF d.err
        THEN /\ UNCHANGED <<backendHosts, backendCNames, sid, failures>>
             /\ Fail(Append(calls, Call("Delete", record, <<>>, "err")), http)
        ELSE \E auth \in AuthOutcomes :
             \E resp \in (IF auth = "ok" THEN Outcomes ELSE {"ok"}) :
                LET a == doAuthenticatedRequest(sid, auth, "DELETE", d.path, d.key)
                    bad == a.err \/ resp = "bad"
                    cs == calls \o a.authCalls
                            \o <<Call("Delete", record, d.key, IF bad THEN "err" ELSE "ok")>>
                IN  /\ sid' = a.sid
                    /\ failures' = IF bad THEN failures + 1 ELSE failures
                    /\ IF bad
                       THEN /\ UNCHANGED <<backendHosts, backendCNames>>
                            /\ Fail(cs, http \o a.reqs)
                       ELSE /\ backendHosts' = IF d.path = "hosts"
                                               THEN Remove(backendHosts, d.key)
                                               ELSE backendHosts
                            /\ backendCNames' = IF d.path = "cnameRecords"
                                                THEN Remove(backendCNames, d.key)
                                                ELSE backendCNames
                            /\ IF next.at = "return"
                               THEN Succeed(cs, http \o a.reqs)
                               ELSE /\ calls' = cs
                                    /\ http' = http \o a.reqs
                                    /\ idx' = next.idx
                                    /\ pc' = next.at
                                    /\ UNCHANGED <<dnsName, records, newRecord, got,
                                                   events, nextAddr, hist>>

\* Reconcile, the delete of a record that differs, and the loop up to its
\* next delete
Delete ==
    /\ pc = "delete"
    /\ UNCHANGED <<obj, fnVars, clVars, drift, backendOpen>>
    /\ DeleteCall(records[idx], Scan(records, newRecord, idx + 1))

\* Reconcile, after the loop: CreateDNSRecord, the event and the condition
Create ==
    /\ pc = "create"
    /\ UNCHANGED <<obj, fnVars, clVars, drift, backendOpen>>
    /\ LET c == CreateDNSRecord(newRecord)
       IN  \E auth \in AuthOutcomes :
           \E resp \in (IF auth = "ok" THEN Outcomes ELSE {"ok"}) :
              LET a == doAuthenticatedRequest(sid, auth, "PUT", c.path, c.key)
                  bad == c.err \/ a.err \/ resp = "bad"
                  cs == calls \o a.authCalls
                          \o <<Call("Create", newRecord, c.key, IF bad THEN "err" ELSE "ok")>>
              IN  /\ sid' = a.sid
                  /\ failures' = IF bad THEN failures + 1 ELSE failures
                  /\ IF bad
                     THEN /\ UNCHANGED <<backendHosts, backendCNames>>
                          /\ Fail(cs, http \o a.reqs)
                     ELSE /\ backendHosts' = IF c.path = "hosts"
                                             THEN Append(backendHosts, c.key)
                                             ELSE backendHosts
                          /\ backendCNames' = IF c.path = "cnameRecords"
                                              THEN Append(backendCNames, c.key)
                                              ELSE backendCNames
                          /\ EndPass("ok", cs, http \o a.reqs, got,
                                     [dnsName EXCEPT !.conditions =
                                          Append(dnsName.conditions, Condition("Created"))],
                                     records, newRecord, Append(events, "Created"))

-----------------------------------------------------------------------------
(* cleanupDNSRecord *)

\* cleanupDNSRecord's loop had it deleted the CNAME records only
CleanupScan_CNamesOnly(recs, domain, i) ==
    IF \E j \in i..Len(recs) : recs[j].Domain = domain /\ recs[j].Type = TypeCName
    THEN [at |-> "cleanupDelete",
          idx |-> CHOOSE j \in i..Len(recs) :
                     /\ recs[j].Domain = domain /\ recs[j].Type = TypeCName
                     /\ \A k \in i..(j - 1) :
                           ~(recs[k].Domain = domain /\ recs[k].Type = TypeCName)]
    ELSE [at |-> "cleanupFinish", idx |-> 0]

\* cleanupDNSRecord's loop over the observed records from position i on, up
\* to what it does next: it deletes the record at idx or leaves the loop
RECURSIVE CleanupScan(_, _, _)
CleanupScan(recs, domain, i) ==
    IF i > Len(recs) THEN [at |-> "cleanupFinish", idx |-> 0]
    ELSE IF recs[i].Domain = domain THEN [at |-> "cleanupDelete", idx |-> i]
    ELSE CleanupScan(recs, domain, i + 1)

\* cleanupDNSRecord, GetDNSRecords and the loop up to its first delete
CleanupList ==
    /\ pc = "cleanupList"
    /\ UNCHANGED <<backendHosts, backendCNames, obj, fnVars, clVars, drift, backendOpen>>
    /\ \E lo \in ListOutcomes :
       \E l \in {GetDNSRecords(sid, lo, backendHosts, backendCNames, nextAddr)} :
          LET listed == calls \o l.authCalls
                          \o <<Call("List", NoRecord, <<>>, IF l.err THEN "err" ELSE "ok")>>
              next == CleanupScan(l.recs, dnsName.spec.Domain, 1)
          IN  /\ sid' = l.sid
              /\ failures' = IF lo = "ok" THEN failures ELSE failures + 1
              /\ IF l.err
                 THEN Fail(listed, http \o l.reqs)
                 ELSE /\ records' = l.recs
                      /\ idx' = next.idx
                      /\ nextAddr' = l.next
                      /\ calls' = listed
                      /\ http' = http \o l.reqs
                      /\ pc' = next.at
                      /\ UNCHANGED <<dnsName, newRecord, got, events, hist>>

\* cleanupDNSRecord, the delete of a record of the declared domain, and the
\* loop up to its next delete
CleanupDelete ==
    /\ pc = "cleanupDelete"
    /\ UNCHANGED <<obj, fnVars, clVars, drift, backendOpen>>
    /\ DeleteCall(records[idx], CleanupScan(records, dnsName.spec.Domain, idx + 1))

\* cleanupDNSRecord, after the loop: the finalizer is removed and persisted;
\* the store then drops the object, whose deletion was only waiting for it
CleanupFinish ==
    /\ pc = "cleanupFinish"
    /\ UNCHANGED <<backendHosts, backendCNames, sid, fnVars, clVars, drift, backendOpen>>
    /\ \E o \in Outcomes :
          LET released == [dnsName EXCEPT !.finalizer = FALSE]
          IN  IF o = "bad"
              THEN /\ failures' = failures + 1
                   /\ UNCHANGED obj
                   /\ EndPass("err", Append(calls, Call("Update", NoRecord, <<>>, "err")),
                              http, got, released, records, newRecord, events)
              ELSE /\ UNCHANGED failures
                   /\ obj' = [obj EXCEPT !.finalizer = FALSE,
                                         !.exists = ~obj.deletion \/ obj.others]
                   /\ EndPass("ok", Append(calls, Call("Update", NoRecord, <<>>, "ok")),
                              http, got, released, records, newRecord, events)

-----------------------------------------------------------------------------
(* The environment *)

\* The user deletes the DNSName: the store sets the deletion timestamp and
\* keeps the object for as long as it holds a finalizer, the controller's or
\* another holder's
RequestDeletion ==
    /\ pc = "idle"
    /\ obj.exists
    /\ ~obj.deletion
    /\ obj' = [obj EXCEPT !.deletion = TRUE, !.exists = obj.finalizer \/ obj.others]
    /\ UNCHANGED <<backendHosts, backendCNames, sid, pc, dnsName, records, idx,
                   newRecord, got, events, nextAddr, calls, http, hist,
                   failures, fnVars, clVars, drift, backendOpen>>

\* Someone else removes from the backend the line of the declared record,
\* between two passes (a removal before the first pass is one more initial
\* backend, a removal after the last pass is seen by no pass)
RemoveOutOfBand ==
    /\ pc = "idle"
    /\ hist # <<>>
    /\ Len(hist) < MaxPasses
    /\ Len(drift) < MaxDrift
    /\ obj.exists
    /\ \E built \in {NewDNSRecordFromSpec(DecodeSpec(obj.spec, 1))} :
       \E c \in {CreateDNSRecord(built.rec)} :
          /\ built.err = ""
          /\ ~c.err
          /\ ClHolds(IF c.path = "hosts" THEN backendHosts ELSE backendCNames, c.key)
          /\ backendHosts' = IF c.path = "hosts" THEN Remove(backendHosts, c.key)
                             ELSE backendHosts
          /\ backendCNames' = IF c.path = "cnameRecords" THEN Remove(backendCNames, c.key)
                              ELSE backendCNames
          /\ drift' = Append(drift, [at |-> Len(hist), path |-> c.path, key |-> c.key])
    /\ UNCHANGED <<obj, sid, pc, dnsName, records, idx, newRecord, got, events,
                   nextAddr, calls, http, hist, failures, fnVars, clVars,
                   backendOpen>>

-----------------------------------------------------------------------------
(* The specification of the controller *)

\* The lines the backend may hold when the controller starts
HostLines == {ip \o <<" ">> \o d : d \in Domains, ip \in Addresses}

CNameLines ==
    {d \o <<",">> \o t \o suffix :
        d \in Domains, t \in Targets, suffix \in {<<>>, <<",", "5", "0", "0">>}}

\* The lines the backend may hold before the first pass: for the domain of
\* the A sample both addresses and for the other domain one; for the domain
\* of the CNAME sample both targets with and without a TTL and for the
\* other domain both targets without
InitialHosts ==
    {ip \o <<" ">> \o foobar4_com : ip \in Addresses}
    \cup {ip_10_0_0_2 \o <<" ">> \o foobar_de}

InitialCNames ==
    {l \in CNameLines : l[1] = foobar_de[1] \/ Len(l) = 3}

RECURSIVE SeqsOf(_, _)
SeqsOf(S, n) ==
    IF n = 0 THEN {<<>>}
    ELSE LET shorter == SeqsOf(S, n - 1)
         IN  shorter \cup {Append(q, x) : q \in {p \in shorter : Len(p) = n - 1},
                                          x \in S}

NoDuplicates(q) == \A i, j \in 1..Len(q) : q[i] = q[j] => i = j

FnIdle ==
    /\ fnSpec = NoSpec
    /\ fnLine = [path |-> "", line |-> <<>>]
    /\ fnBuilt = [called |-> FALSE, err |-> "", rec |-> NoRecord]
    /\ fnDecoded = [called |-> FALSE, status |-> "", rec |-> NoRecord]
    /\ fnEq = [called |-> FALSE, a |-> NoRecord, b |-> NoRecord, eq |-> FALSE]
    /\ fnTrip = [called |-> FALSE, rec |-> NoRecord, key |-> <<>>, status |-> "",
                 decoded |-> NoRecord]
    /\ clLog = <<>>
    /\ clExpired = FALSE
    /\ drift = <<>>

\* The state after construction, against a Pi-hole with a password (open =
\* FALSE) or without one, for a DNSName that carries only the finalizers the
\* controller adds (others = FALSE) or another holder's as well
InitAgainst(open, others) ==
    /\ backendHosts \in {q \in SeqsOf(InitialHosts, MaxBackend) : NoDuplicates(q)}
    /\ backendCNames \in {q \in SeqsOf(InitialCNames, MaxBackend - Len(backendHosts)) :
                              NoDuplicates(q)}
    /\ \E s \in StoredSpecs :
          obj = [exists |-> TRUE, spec |-> s, finalizer |-> FALSE, others |-> others,
                 deletion |-> FALSE, conditions |-> <<>>]
    /\ sid = ""
    /\ pc = "idle"
    /\ dnsName = NoDNSName
    /\ got = NoDNSName
    /\ records = <<>>
    /\ idx = 0
    /\ newRecord = NoRecord
    /\ events = <<>>
    /\ nextAddr = 1
    /\ calls = <<>>
    /\ http = <<>>
    /\ hist = <<>>
    /\ failures = 0
    /\ FnIdle
    /\ backendOpen = open

Init == InitAgainst(FALSE, FALSE)

Next ==
    \/ Load
    \/ AddFinalizer
    \/ ListAndBuild
    \/ Delete
    \/ Create
    \/ CleanupList
    \/ CleanupDelete
    \/ CleanupFinish
    \/ RequestDeletion

Spec == Init /\ [][Next]_vars

\* The controller with a backend that others mutate as well
NextDrift ==
    \/ Next
    \/ RemoveOutOfBand

SpecDrift == Init /\ [][NextDrift]_vars

\* The controller against a Pi-hole that has no password set
InitOpen == InitAgainst(TRUE, FALSE)

SpecOpen == InitOpen /\ [][Next]_vars

\* The same controller with a DNSName that carries another holder's
\* finalizer next to the controller's: the store keeps it, under deletion,
\* after the controller's token is gone or before it was ever added
InitForeign == InitAgainst(FALSE, TRUE)

SpecForeign == InitForeign /\ [][Next]_vars

-----------------------------------------------------------------------------
(* The record model on its own: NewDNSRecordFromSpec and Equals are applied *)
(* to specs as r.Get decodes them and to records as getCNames and           *)
(* getARecords decode them                                                  *)

AllSpecs ==
    {DNSNameSpec(t, d, target, ip, IF ttl.present THEN NewPtr(1, ttl.val) ELSE NilPtr) :
        t \in RecordTypes, d \in Domains,
        target \in {NoStr} \cup {SomeStr(x) : x \in Targets},
        ip \in {NoStr} \cup {SomeStr(x) : x \in Addresses},
        ttl \in {NoTTL} \cup {SomeTTL(v) : v \in TTLs}}

AllLines ==
    {[path |-> "hosts", line |-> l] : l \in HostLines}
    \cup {[path |-> "cnameRecords", line |-> l] : l \in CNameLines}
    \cup {[path |-> "cnameRecords", line |-> d \o <<",">> \o t \o <<",", "0">>] :
             d \in Domains, t \in Targets}

FnNewDNSRecordFromSpec ==
    /\ ~fnBuilt.called
    /\ LET b == NewDNSRecordFromSpec(fnSpec)
       IN  fnBuilt' = [called |-> TRUE, err |-> b.err, rec |-> b.rec]
    /\ UNCHANGED <<ctlVars, clVars, nextAddr, fnSpec, fnLine, fnDecoded, fnEq, fnTrip>>

FnDecode ==
    /\ ~fnDecoded.called
    /\ IF fnLine.path = "hosts"
       THEN LET d == DecodeA(fnLine.line)
            IN  /\ fnDecoded' = [called |-> TRUE, status |-> d.status, rec |-> d.rec]
                /\ UNCHANGED nextAddr
       ELSE LET d == DecodeCName(fnLine.line, nextAddr)
            IN  /\ fnDecoded' = [called |-> TRUE, status |-> d.status, rec |-> d.rec]
                /\ nextAddr' = d.next
    /\ UNCHANGED <<ctlVars, clVars, fnSpec, fnLine, fnBuilt, fnEq, fnTrip>>

FnOperands ==
    (IF fnBuilt.called /\ fnBuilt.err = "" THEN {fnBuilt.rec} ELSE {})
    \cup (IF fnDecoded.called /\ fnDecoded.status = "ok" THEN {fnDecoded.rec} ELSE {})

FnEquals ==
    /\ \E a \in FnOperands, b \in FnOperands :
          fnEq' = [called |-> TRUE, a |-> a, b |-> b, eq |-> Equals(a, b)]
    /\ UNCHANGED <<ctlVars, clVars, nextAddr, fnSpec, fnLine, fnBuilt, fnDecoded, fnTrip>>

\* The record NewDNSRecordFromSpec built goes through CreateDNSRecord's key
\* format and, as a line of that collection, through GetDNSRecords' parser
FnRoundTrip ==
    /\ fnBuilt.called /\ fnBuilt.err = ""
    /\ ~fnTrip.called
    /\ \E c \in {CreateDNSRecord(fnBuilt.rec)} :
          IF c.path = "hosts"
          THEN \E d \in {DecodeA(c.key)} :
                  /\ fnTrip' = [called |-> TRUE, rec |-> fnBuilt.rec, key |-> c.key,
                                status |-> d.status, decoded |-> d.rec]
                  /\ UNCHANGED nextAddr
          ELSE \E d \in {DecodeCName(c.key, nextAddr)} :
                  /\ fnTrip' = [called |-> TRUE, rec |-> fnBuilt.rec, key |-> c.key,
                                status |-> d.status, decoded |-> d.rec]
                  /\ nextAddr' = d.next
    /\ UNCHANGED <<ctlVars, clVars, fnSpec, fnLine, fnBuilt, fnDecoded, fnEq>>

InitRecord ==
    /\ backendHosts = <<>>
    /\ backendCNames = <<>>
    /\ obj = [exists |-> FALSE, others |-> FALSE,
              spec |-> DNSNameSpec("", <<>>, NoStr, NoStr, NoTTL),
              finalizer |-> FALSE, deletion |-> FALSE, conditions |-> <<>>]
    /\ sid = ""
    /\ pc = "idle"
    /\ dnsName = NoDNSName
    /\ got = NoDNSName
    /\ records = <<>>
    /\ idx = 0
    /\ newRecord = NoRecord
    /\ events = <<>>
    /\ nextAddr = 2
    /\ calls = <<>>
    /\ http = <<>>
    /\ hist = <<>>
    /\ failures = 0
    /\ fnSpec \in AllSpecs
    /\ fnLine \in AllLines
    /\ fnBuilt = [called |-> FALSE, err |-> "", rec |-> NoRecord]
    /\ fnDecoded = [called |-> FALSE, status |-> "", rec |-> NoRecord]
    /\ fnEq = [called |-> FALSE, a |-> NoRecord, b |-> NoRecord, eq |-> FALSE]
    /\ fnTrip = [called |-> FALSE, rec |-> NoRecord, key |-> <<>>, status |-> "",
                 decoded |-> NoRecord]
    /\ clLog = <<>>
    /\ clExpired = FALSE
    /\ drift = <<>>
    /\ backendOpen = FALSE

NextRecord ==
    \/ FnNewDNSRecordFromSpec
    \/ FnDecode
    \/ FnEquals
    \/ FnRoundTrip

SpecRecord == InitRecord /\ [][NextRecord]_vars

-----------------------------------------------------------------------------
(* The client on its own: a caller invokes GetDNSRecords, CreateDNSRecord,  *)
(* DeleteDNSRecord and Close one after the other on one PiHole, against a   *)
(* backend that may refuse the credentials, fail a request, or drop the     *)
(* session it has issued                                                    *)

clFrame == <<obj, pc, dnsName, records, idx, newRecord, got, events, calls, http,
             hist, failures, fnVars, drift, backendOpen>>

ClRecord == DNSRecord(foobar_de, homelab, TypeCName, NilPtr)

\* The answer to POST /auth, sent only when no session id is held
ClAuthResponses ==
    IF sid # "" THEN {SessionIssued}
    ELSE IF backendOpen THEN {SessionIssued, AuthResponse("ok", 401, TRUE, FALSE, "")}
    ELSE AuthResponses

ClAuth(resp) == IF authenticate(sid, resp).err THEN "bad" ELSE "ok"

\* The answer to the request itself: a dropped session is refused
ClResponses == IF clExpired THEN {"bad"} ELSE Outcomes

ClEntry(op, resp, r, err) ==
    [op |-> op, before |-> sid, after |-> r.sid, auth |-> resp,
     calls |-> r.authCalls, reqs |-> r.reqs, err |-> err, expired |-> clExpired]

ClientList ==
    /\ Len(clLog) < MaxOps
    /\ \E resp \in ClAuthResponses :
       \E lo \in (IF ClAuth(resp) = "bad" THEN {"authBad"}
                  ELSE IF clExpired THEN {"hostsBad"}
                  ELSE ListOutcomes \ {"authBad"}) :
       \E l \in {GetDNSRecords(sid, lo, backendHosts, backendCNames, nextAddr)} :
          /\ sid' = l.sid
          /\ clLog' = Append(clLog, ClEntry("List", resp, l, l.err)
                                        @@ [lo |-> lo, recs |-> l.recs,
                                            hosts |-> backendHosts,
                                            cnames |-> backendCNames])
    /\ UNCHANGED <<backendHosts, backendCNames, nextAddr, clExpired, clFrame>>

ClientCreate ==
    /\ Len(clLog) < MaxOps
    /\ \E resp \in ClAuthResponses :
       \E c \in {CreateDNSRecord(ClRecord)} :
       \E out \in (IF ClHolds(backendCNames, c.key) THEN {"bad"} ELSE ClResponses) :
       \E a \in {doAuthenticatedRequest(sid, ClAuth(resp), "PUT", c.path, c.key)} :
          /\ sid' = a.sid
          /\ backendCNames' = IF a.err \/ out = "bad" THEN backendCNames
                              ELSE Append(backendCNames, c.key)
          /\ clLog' = Append(clLog, ClEntry("Create", resp, a, a.err \/ out = "bad"))
    /\ UNCHANGED <<backendHosts, nextAddr, clExpired, clFrame>>

ClientDelete ==
    /\ Len(clLog) < MaxOps
    /\ \E resp \in ClAuthResponses :
       \E d \in {DeleteDNSRecord(ClRecord)} :
       \E out \in (IF ClHolds(backendCNames, d.key) THEN ClResponses ELSE {"bad"}) :
       \E a \in {doAuthenticatedRequest(sid, ClAuth(resp), "DELETE", d.path, d.key)} :
          /\ sid' = a.sid
          /\ backendCNames' = IF a.err \/ out = "bad" THEN backendCNames
                              ELSE Remove(backendCNames, d.key)
          /\ clLog' = Append(clLog, ClEntry("Delete", resp, a, a.err \/ out = "bad"))
    /\ UNCHANGED <<backendHosts, nextAddr, clExpired, clFrame>>

\* Close; the backend drops the session, if it has issued one, when it
\* answers 200
ClientClose ==
    /\ Len(clLog) < MaxOps
    /\ \E resp \in ClAuthResponses, out \in ClResponses :
       \E a \in {Close(sid, ClAuth(resp), out)} :
          /\ sid' = a.sid
          /\ clExpired' = (clExpired \/ (~a.err /\ a.sid # ""))
          /\ clLog' = Append(clLog, ClEntry("Close", resp, a, a.err))
    /\ UNCHANGED <<backendHosts, backendCNames, nextAddr, clFrame>>

\* The backend drops the session it has issued (its validity time is over)
ExpireSession ==
    /\ sid # ""
    /\ ~clExpired
    /\ clExpired' = TRUE
    /\ UNCHANGED <<backendHosts, backendCNames, sid, nextAddr, clLog, clFrame>>

\* cnameRecords lines whose TTL segment strconv.ParseInt refuses
ClBadLines ==
    {foobar4_com \o <<",">> \o nas \o <<",", "5", "m">>,
     foobar4_com \o <<",">> \o nas \o <<",">>}

\* What the backend may hold when the client is constructed: nothing, the
\* CNAME the caller creates and deletes, or an address line with a CNAME
\* line that carries a TTL, well-formed or not
ClInitialBackends ==
    {[hosts |-> <<>>, cnames |-> <<>>],
     [hosts |-> <<>>, cnames |-> <<CNameKey(foobar_de, homelab, NilPtr)>>],
     [hosts |-> <<AKey(foobar4_com, ip_192_168_178_1)>>,
      cnames |-> <<foobar4_com \o <<",">> \o nas \o <<",", "5", "0", "0">>>>]}
    \cup {[hosts |-> <<AKey(foobar4_com, ip_192_168_178_1)>>,
           cnames |-> <<CNameKey(foobar_de, homelab, NilPtr), bad>>] :
              bad \in ClBadLines}

InitClient ==
    /\ backendOpen \in BOOLEAN
    /\ \E b \in ClInitialBackends :
          /\ backendOpen => b.hosts = <<>>
          /\ backendHosts = b.hosts
          /\ backendCNames = b.cnames
    /\ obj = [exists |-> FALSE, others |-> FALSE,
              spec |-> DNSNameSpec("", <<>>, NoStr, NoStr, NoTTL),
              finalizer |-> FALSE, deletion |-> FALSE, conditions |-> <<>>]
    /\ sid = ""
    /\ pc = "idle"
    /\ dnsName = NoDNSName
    /\ got = NoDNSName
    /\ records = <<>>
    /\ idx = 0
    /\ newRecord = NoRecord
    /\ events = <<>>
    /\ nextAddr = 1
    /\ calls = <<>>
    /\ http = <<>>
    /\ hist = <<>>
    /\ failures = 0
    /\ FnIdle

NextClient ==
    \/ ClientList
    \/ ClientCreate
    \/ ClientDelete
    \/ ClientClose
    \/ ExpireSession

SpecClient == InitClient /\ [][NextClient]_vars

-----------------------------------------------------------------------------
(* Vocabulary of the properties *)

\* Equality of two records as the record model defines it: domain, target
\* and kind agree, and so does the TTL by presence and by value
SameFields(a, b) ==
    /\ a.Domain = b.Domain
    /\ a.Target = b.Target
    /\ a.Type = b.Type
    /\ IsNil(a.TTL) = IsNil(b.TTL)
    /\ (~IsNil(a.TTL) => a.TTL.val = b.TTL.val)

Passes == {hist[i] : i \in 1..Len(hist)}

\* The pass that has just finished.  hist only grows, and every pass is the
\* last one in the state where it ends, so what holds of Finished in every
\* reachable state holds of every pass
Finished == IF pc = "idle" /\ hist # <<>> THEN {hist[Len(hist)]} ELSE {}

\* A pass that loaded a live resource and ended without any failure
NormalPass(p) == p.got.found /\ ~p.got.deletion /\ p.result = "ok"

\* A pass that loaded a resource under deletion holding the finalizer and
\* ended without any failure
CleanupPass(p) == p.got.found /\ p.got.deletion /\ p.got.finalizer /\ p.result = "ok"

Declared(p) == p.got.spec.Domain

Matching(p) == {i \in 1..Len(p.records) : p.records[i].Domain = Declared(p)}

Mutations(p) == SelectSeq(p.calls, LAMBDA c : c.op \in {"Create", "Delete"})

Creates(p) == SelectSeq(p.calls, LAMBDA c : c.op = "Create")

Deletes(p) == SelectSeq(p.calls, LAMBDA c : c.op = "Delete")

\* The deletes of the matching records in listing order, then the one create
DeletesThenCreate(p) ==
    LET m == Mutations(p)
        n == Cardinality(Matching(p))
    IN  /\ Len(m) = n + 1
        /\ \A k \in 1..n : m[k].op = "Delete" /\ m[k].status = "ok"
        /\ \A i \in Matching(p) :
              \E k \in 1..n : m[k].rec = p.records[i]
        /\ m[n + 1].op = "Create"
        /\ m[n + 1].status = "ok"
        /\ m[n + 1].rec = p.newRecord

-----------------------------------------------------------------------------
(* Properties of the reconcile pass *)

\* C1: two failure-free passes in a row for the same live resource, the
\* first of which found no record with the declared domain, issue exactly
\* one create and no delete in total, and the second issues no mutating call
C1_Idempotence ==
    \A i \in 1..(Len(hist) - 1) :
        (/\ NormalPass(hist[i])
         /\ NormalPass(hist[i + 1])
         /\ Matching(hist[i]) = {})
        => /\ Len(Creates(hist[i])) + Len(Creates(hist[i + 1])) = 1
           /\ Len(Deletes(hist[i])) + Len(Deletes(hist[i + 1])) = 0
           /\ Mutations(hist[i + 1]) = <<>>

\* C2: a pass for a live resource, none of whose calls failed, whose
\* observed set holds one record with the declared domain, equal in domain,
\* target, kind and TTL to the desired record, issues no create and no
\* delete and ends successfully
C2_NoOpOnMatch ==
    \A p \in Finished :
        (/\ p.got.found
         /\ ~p.got.deletion
         /\ \A k \in 1..Len(p.calls) : p.calls[k].status # "err"
         /\ Cardinality(Matching(p)) = 1
         /\ p.newRecord # NoRecord
         /\ \A i \in Matching(p) : SameFields(p.records[i], p.newRecord))
        => /\ Mutations(p) = <<>>
           /\ p.result = "ok"

\* C3: a failure-free pass that observed exactly one record with the
\* declared domain, differing from the desired record, issues one delete of
\* that record and then one create of the desired record, and nothing else
C3_ConvergenceOnDrift ==
    \A p \in Finished :
        (/\ NormalPass(p)
         /\ Cardinality(Matching(p)) = 1
         /\ \A i \in Matching(p) : ~SameFields(p.records[i], p.newRecord))
        => /\ DeletesThenCreate(p)
           /\ Len(Mutations(p)) = 2

C3_Witness ==
    \E p \in Passes :
        /\ NormalPass(p)
        /\ Cardinality(Matching(p)) = 1
        /\ \A i \in Matching(p) :
              /\ ~IsNil(p.records[i].TTL)
              /\ p.records[i].TTL.val = 500
              /\ IsNil(p.newRecord.TTL)
              /\ p.records[i].Target = p.newRecord.Target
        /\ Len(Mutations(p)) = 2

\* C4: a failure-free pass for a live resource that observed no record with
\* the declared domain issues one create of the desired record and no
\* delete; for kind A the create is keyed "<address> <domain>"
C4_CreateWhenMissing ==
    \A p \in Finished :
        (NormalPass(p) /\ Matching(p) = {})
        => /\ DeletesThenCreate(p)
           /\ Len(Mutations(p)) = 1
           /\ (p.got.spec.Type = TypeA
                 => Mutations(p)[1].key
                      = p.got.spec.TargetIP.val \o <<" ">> \o p.got.spec.Domain)

C4_Witness ==
    \E p \in Passes :
        /\ NormalPass(p)
        /\ p.records = <<>>
        /\ p.got.spec.Type = TypeA
        /\ p.got.spec.Domain = foobar4_com
        /\ p.got.spec.TargetIP = SomeStr(ip_192_168_178_1)
        /\ Len(Mutations(p)) = 1
        /\ Mutations(p)[1].op = "Create"
        /\ Mutations(p)[1].key = <<"192.168.178.1", " ", "foobar4.com">>

\* C5: a failure-free pass for a resource under deletion that holds the
\* finalizer deletes every observed record with the declared domain, then
\* removes the finalizer and persists that, and issues no create
C5_DeletionSafety ==
    \A p \in Finished :
        CleanupPass(p)
        => /\ \A i \in Matching(p) :
                 \E k \in 1..Len(p.calls) :
                    /\ p.calls[k].op = "Delete"
                    /\ p.calls[k].rec = p.records[i]
                    /\ p.calls[k].status = "ok"
           /\ Len(Deletes(p)) = Cardinality(Matching(p))
           /\ p.calls[Len(p.calls)] = Call("Update", NoRecord, <<>>, "ok")
           /\ \A k \in 1..(Len(p.calls) - 1) : p.calls[k].op # "Update"
           /\ ~p.final.finalizer
           /\ ~p.stored.finalizer
           /\ Creates(p) = <<>>

C5_Witness ==
    \E p \in Passes :
        /\ CleanupPass(p)
        /\ Cardinality(Matching(p)) = 2
        /\ \E i, j \in Matching(p) : p.records[i].Type # p.records[j].Type
        /\ Len(Deletes(p)) = 2
        /\ ~p.stored.finalizer

C12_FailureIsTerminal ==
    \A p \in Finished :
        /\ \A i \in 1..Len(p.calls) :
              p.calls[i].status = "err"
              => /\ p.result = "err"
                 /\ \/ i = Len(p.calls)
                    \/ /\ i = Len(p.calls) - 1
                       /\ p.calls[i].op = "Authenticate"
                       /\ p.calls[i + 1].op \in {"List", "Delete", "Create"}
                       /\ p.calls[i + 1].status = "err"
        /\ p.result = "ok" => \A i \in 1..Len(p.calls) : p.calls[i].status # "err"
        /\ p.result = "err"
           => /\ \E i \in 1..Len(p.calls) : p.calls[i].status = "err"
              /\ \A i \in 1..Len(p.calls) :
                    (p.calls[i].op = "Delete" /\ p.calls[i].status = "ok")
                    => /\ \A k \in 1..Len(backendHosts) : backendHosts[k] # p.calls[i].key
                       /\ \A k \in 1..Len(backendCNames) : backendCNames[k] # p.calls[i].key

C12_Witness ==
    \E p \in Finished :
        /\ p.result = "err"
        /\ \E i \in 1..Len(p.calls) : p.calls[i].op = "Delete" /\ p.calls[i].status = "ok"
        /\ p.calls[Len(p.calls)].op = "Create"
        /\ p.calls[Len(p.calls)].status = "err"

\* The records the backend holds, as GetDNSRecords decodes them
Held == DecodeAs(backendHosts).recs \o DecodeCNames(backendCNames, 1).recs

\* C13: when a pass for a live resource fails after it issued a mutation,
\* and the next pass for that resource runs without failure, the backend
\* then holds a record equal to the desired record (domain, target, kind
\* and TTL by presence and value)
C13_SelfCorrection ==
    (pc = "idle" /\ Len(hist) >= 2)
    => LET failed == hist[Len(hist) - 1]
           next == hist[Len(hist)]
       IN  (/\ failed.got.found /\ ~failed.got.deletion
            /\ failed.result = "err"
            /\ \E i \in 1..Len(failed.calls) :
                  /\ failed.calls[i].op \in {"Create", "Delete"}
                  /\ failed.calls[i].status = "ok"
            /\ NormalPass(next))
           => \E i \in 1..Len(Held) : SameFields(Held[i], next.newRecord)

\* C14: a pass that loads a live resource without the finalizer token
\* persists the token right after the load, before any backend call; when
\* that write fails the pass ends in an error with no listing, create or
\* delete; a pass that loads a live resource holding the token issues no
\* store write
C14_FinalizerGate ==
    \A p \in Finished :
        (p.got.found /\ ~p.got.deletion)
        => IF p.got.finalizer
           THEN \A i \in 1..Len(p.calls) : p.calls[i].op # "Update"
           ELSE /\ Len(p.calls) >= 2
                /\ p.calls[1].op = "Get"
                /\ p.calls[2].op = "Update"
                /\ \A i \in 3..Len(p.calls) : p.calls[i].op # "Update"
                /\ p.calls[2].status = "ok" => p.stored.finalizer
                /\ p.calls[2].status = "err"
                   => /\ p.result = "err"
                      /\ Len(p.calls) = 2
                      /\ ~p.stored.finalizer

C14_Witness ==
    /\ pc = "idle"
    /\ Len(hist) = 2
    /\ hist[1].got.found /\ ~hist[1].got.deletion /\ ~hist[1].got.finalizer
    /\ hist[1].calls[2].status = "err"
    /\ hist[2].got.found /\ ~hist[2].got.deletion /\ ~hist[2].got.finalizer
    /\ hist[2].calls[2].status = "ok"
    /\ Len(hist[2].calls) > 2
    /\ hist[2].calls[Len(hist[2].calls)].op = "Create"

\* C15: a pass whose load finds no resource ends successfully; the load is
\* its only call (no authentication, listing, create, delete or store
\* write), it emits no event and the store still holds no such resource
C15_NotFoundIsTerminal ==
    \A p \in Finished :
        (Len(p.calls) >= 1 /\ p.calls[1].status = "notfound")
        => /\ p.result = "ok"
           /\ Len(p.calls) = 1
           /\ p.calls[1].op = "Get"
           /\ p.events = <<>>
           /\ ~p.got.found
           /\ ~p.stored.exists

C15_Witness ==
    \E p \in Finished :
        /\ p.calls[1].status = "notfound"
        /\ p.result = "ok"
        /\ backendCNames # <<>>

\* C20: in every pass, normal or cleanup, each delete is issued for an
\* observed record of the declared domain and each create for the declared
\* domain, and every observed record of another domain is still held by the
\* backend when the pass has ended
C20_OtherDomainsUntouched ==
    \A p \in Finished :
    \A h \in {Held} :
        p.got.found
        => /\ \A i \in 1..Len(p.calls) :
                 p.calls[i].op \in {"Create", "Delete"}
                 => /\ p.calls[i].rec.Domain = Declared(p)
                    /\ p.calls[i].op = "Delete"
                       => \E k \in Matching(p) : p.calls[i].rec = p.records[k]
           /\ \A i \in 1..Len(p.records) :
                 p.records[i].Domain # Declared(p)
                 => \E k \in 1..Len(h) : SameFields(h[k], p.records[i])
           /\ Cardinality({k \in 1..Len(h) : h[k].Domain # Declared(p)})
                 = Cardinality({i \in 1..Len(p.records) : p.records[i].Domain # Declared(p)})
              \/ p.records = <<>>

C20_Witness ==
    \E p \in Finished :
        /\ NormalPass(p)
        /\ \E i \in 1..Len(p.records) : p.records[i].Domain # Declared(p)
        /\ Len(Deletes(p)) = 1
        /\ Len(Creates(p)) = 1
        /\ \E k \in 1..Len(Held) : Held[k].Domain # Declared(p)

\* C21: a pass for a live resource whose spec fails validation ends with an
\* error without having called the listing and without any create or delete
C21_BuildPrecedesFetch ==
    \A p \in Finished :
        (/\ p.got.found
         /\ ~p.got.deletion
         /\ NewDNSRecordFromSpec(p.got.spec).err # "")
        => /\ p.result = "err"
           /\ \A i \in 1..Len(p.calls) : p.calls[i].op \notin {"List", "Create", "Delete"}

\* The positions in Held of the records with domain d
HeldFor(d) == UNION {{k \in 1..Len(h) : h[k].Domain = d} : h \in {Held}}

\* The positions in recs of the records with domain d
WithDomain(recs, d) == {i \in 1..Len(recs) : recs[i].Domain = d}

ListedOk(cs) == \E i \in 1..Len(cs) : cs[i].op = "List" /\ cs[i].status = "ok"

\* C22: a pass, successful or failed, normal or cleanup, that observed at
\* most one record with a domain leaves at most one record with that domain
\* in the backend, at its end and at each of its calls, and a pass that did
\* not observe the backend issues no create and no delete; so a backend that
\* starts with no record for a domain holds at most one after any sequence
\* of passes
C22_AtMostOnePerDomain ==
    /\ \A p \in Finished :
          IF ListedOk(p.calls)
          THEN \A d \in Domains :
                  Cardinality(WithDomain(p.records, d)) <= 1
                  => Cardinality(HeldFor(d)) <= 1
          ELSE Mutations(p) = <<>>
    /\ pc # "idle"
       => IF ListedOk(calls)
          THEN \A d \in Domains :
                  Cardinality(WithDomain(records, d)) <= 1
                  => Cardinality(HeldFor(d)) <= 1
          ELSE \A i \in 1..Len(calls) : calls[i].op \notin {"Create", "Delete"}

C22_Witness ==
    /\ pc = "idle"
    /\ Len(hist) = 2
    /\ \A p \in Passes : p.got.found /\ ~p.got.deletion
    /\ \E i \in 1..Len(hist[1].calls) :
          hist[1].calls[i].op = "List" /\ hist[1].calls[i].status = "ok"
    /\ Matching(hist[1]) = {}
    /\ Len(Creates(hist[1])) = 1
    /\ hist[1].result = "ok"
    /\ Len(Deletes(hist[2])) = 1
    /\ Len(Creates(hist[2])) = 1
    /\ hist[2].result = "ok"
    /\ Cardinality(HeldFor(Declared(hist[2]))) = 1

\* The pass that has just finished, the backend being as that pass left it
JustFinished ==
    IF \E k \in 1..Len(drift) : drift[k].at = Len(hist) THEN {} ELSE Finished

\* A pass that got past the finalizer gate or ran the cleanup
PastGate(p) ==
    /\ p.got.found
    /\ IF p.got.deletion
       THEN p.got.finalizer
       ELSE \/ p.got.finalizer
            \/ \E i \in 1..Len(p.calls) :
                  p.calls[i].op = "Update" /\ p.calls[i].status = "ok"

SameRecords(a, b) ==
    /\ Len(a) = Len(b)
    /\ \A i \in 1..Len(a) : SameFields(a[i], b[i])

\* C23: a pass that gets past the finalizer gate, and a cleanup, calls the
\* listing, and calls it with success before any create or delete; what it
\* observed is what the backend held in that pass, each delete is for a
\* record it observed, a failure-free pass that observed no record with the
\* declared domain issues the one create, and one that issued nothing
\* observed a record equal to the desired one; so when the line of the
\* desired record has been removed behind the controller's back, the next
\* failure-free pass creates it again
C23_EveryPassRefetches ==
    \A p \in JustFinished :
        /\ PastGate(p) => \E i \in 1..Len(p.calls) : p.calls[i].op = "List"
        /\ \A i \in 1..Len(p.calls) :
              p.calls[i].op \in {"Create", "Delete"}
              => \E j \in 1..(i - 1) :
                    p.calls[j].op = "List" /\ p.calls[j].status = "ok"
        /\ \A i \in 1..Len(p.calls) :
              p.calls[i].op = "Delete"
              => \E k \in Matching(p) : p.records[k] = p.calls[i].rec
        /\ (ListedOk(p.calls) /\ Mutations(p) = <<>>) => SameRecords(Held, p.records)
        /\ (NormalPass(p) /\ Matching(p) = {})
           => /\ Len(Mutations(p)) = 1
              /\ Mutations(p)[1].op = "Create"
              /\ Mutations(p)[1].rec = p.newRecord
        /\ (NormalPass(p) /\ Mutations(p) = <<>>)
           => \E k \in Matching(p) : Equals(p.records[k], p.newRecord)
        /\ \A k \in 1..Len(drift) :
              (/\ drift[k].at = Len(hist) - 1
               /\ NormalPass(p)
               /\ drift[k].path = CreateDNSRecord(p.newRecord).path
               /\ drift[k].key = CreateDNSRecord(p.newRecord).key)
              => /\ \E i \in 1..Len(p.calls) :
                       /\ p.calls[i].op = "Create"
                       /\ p.calls[i].status = "ok"
                       /\ p.calls[i].key = drift[k].key
                 /\ ClHolds(IF drift[k].path = "hosts" THEN backendHosts
                            ELSE backendCNames, drift[k].key)

C23_Witness ==
    /\ pc = "idle"
    /\ Len(hist) = 2
    /\ Len(drift) = 1
    /\ drift[1].at = 1
    /\ NormalPass(hist[1])
    /\ Mutations(hist[1]) = <<>>
    /\ \E k \in Matching(hist[1]) : SameFields(hist[1].records[k], hist[1].newRecord)
    /\ NormalPass(hist[2])
    /\ Matching(hist[2]) = {}
    /\ Len(Creates(hist[2])) = 1
    /\ Creates(hist[2])[1].key = drift[1].key
    /\ ClHolds(backendHosts, drift[1].key) \/ ClHolds(backendCNames, drift[1].key)

CallsOf(p, op) == SelectSeq(p.calls, LAMBDA c : c.op = op)

\* C25: a pass calls the listing at most once, the delete at most once for
\* each record it observed, the create at most once and authenticate at most
\* once, so the number of its calls is bounded by the number of records it
\* observed
C25_NoInternalRetries ==
    \A p \in Finished :
        /\ Len(CallsOf(p, "List")) <= 1
        /\ Len(CallsOf(p, "Create")) <= 1
        /\ \A k \in 1..Len(p.records) :
              Len(SelectSeq(p.calls, LAMBDA c : c.op = "Delete" /\ c.rec = p.records[k])) <= 1
        /\ Len(CallsOf(p, "Delete")) <= Cardinality(Matching(p))
        /\ Len(CallsOf(p, "Authenticate")) <= 1
        /\ Len(p.calls) <= Len(p.records) + 6

\* The pass ended with a CreateRecord call that succeeded
CreateSucceeded(p) ==
    /\ p.calls # <<>>
    /\ p.calls[Len(p.calls)].op = "Create"
    /\ p.calls[Len(p.calls)].status = "ok"

CleanupAttempt(p) == p.got.found /\ p.got.deletion /\ p.got.finalizer

\* A backend call of the pass failed
BackendFailed(p) ==
    \E k \in 1..Len(p.calls) :
       /\ p.calls[k].op \in {"Authenticate", "List", "Delete"}
       /\ p.calls[k].status = "err"

\* C27: while cleanup is listing or deleting, the token is held in the store
\* and in the pass's copy; a cleanup pass whose listing or one of whose
\* deletes failed ends in an error right at that call, issues no store write
\* and leaves the resource stored with its token; and a cleanup pass after
\* which the store no longer holds the token has listed successfully and has
\* deleted every record of the declared domain that it observed
C27_FinalizerSurvivesFailedCleanup ==
    /\ pc \in {"cleanupList", "cleanupDelete"}
       => /\ obj.exists /\ obj.finalizer /\ dnsName.finalizer
          /\ \A k \in 1..Len(calls) : calls[k].op # "Update"
    /\ \A p \in Finished :
          CleanupAttempt(p)
          => /\ BackendFailed(p)
                => /\ p.result = "err"
                   /\ p.calls[Len(p.calls)].status = "err"
                   /\ \A k \in 1..Len(p.calls) : p.calls[k].op # "Update"
                   /\ p.final.finalizer
                   /\ p.stored.exists /\ p.stored.finalizer /\ p.stored.deletion
             /\ (~p.stored.exists \/ ~p.stored.finalizer)
                => /\ \E k \in 1..Len(p.calls) :
                         p.calls[k].op = "List" /\ p.calls[k].status = "ok"
                   /\ \A i \in Matching(p) :
                         \E k \in 1..Len(p.calls) :
                            /\ p.calls[k].op = "Delete"
                            /\ p.calls[k].rec = p.records[i]
                            /\ p.calls[k].status = "ok"

\* A cleanup pass that deleted one record of the declared domain and failed
\* on the next one
C27_Witness ==
    \E p \in Finished :
       /\ CleanupAttempt(p)
       /\ Cardinality(Matching(p)) >= 2
       /\ Len(Deletes(p)) = 2
       /\ Deletes(p)[1].status = "ok"
       /\ Deletes(p)[2].status = "err"
       /\ p.stored.finalizer

\* A cleanup pass whose listing failed
C27_WitnessList ==
    \E p \in Finished :
       /\ CleanupAttempt(p)
       /\ p.calls[Len(p.calls)] = Call("List", NoRecord, <<>>, "err")
       /\ p.stored.finalizer

\* The store offers a resource under deletion that does not hold the token
DeletionWithoutToken == obj.exists /\ obj.deletion /\ ~obj.finalizer

\* C28: a pass that loads a resource under deletion without the finalizer
\* token ends successfully with the load as its only call: no
\* authentication, listing, create or delete, no store write, the token
\* neither in the pass's copy nor in the store; and the step that runs such a
\* pass leaves the backend, the session and the stored object as they were
C28_DeletionWithoutToken ==
    /\ [](\A p \in Finished :
             (p.got.found /\ p.got.deletion /\ ~p.got.finalizer)
             => /\ p.result = "ok"
                /\ p.calls = <<Call("Get", NoRecord, <<>>, "ok")>>
                /\ p.records = <<>>
                /\ p.newRecord = NoRecord
                /\ p.events = <<>>
                /\ ~p.final.finalizer
                /\ p.stored.exists /\ p.stored.deletion /\ ~p.stored.finalizer)
    /\ [][(pc = "idle" /\ DeletionWithoutToken /\ hist' # hist)
          => /\ pc' = "idle"
             /\ Len(hist') = Len(hist) + 1
             /\ hist'[Len(hist')].got.found => hist'[Len(hist')].result = "ok"
             /\ Len(hist'[Len(hist')].calls) = 1
             /\ obj' = obj
             /\ backendHosts' = backendHosts
             /\ backendCNames' = backendCNames
             /\ sid' = sid]_vars

\* Such a pass for a resource deleted before its first pass, while the
\* backend holds a record of the declared domain
C28_Witness ==
    /\ pc = "idle"
    /\ Len(hist) = 1
    /\ hist[1].got.found /\ hist[1].got.deletion /\ ~hist[1].got.finalizer
    /\ hist[1].result = "ok"
    /\ hist[1].stored.exists
    /\ HeldFor(Declared(hist[1])) # {}

-----------------------------------------------------------------------------
(* Properties of the record model *)

\* C7: Equals(a, b) is true iff domain, target, kind and TTL all match, the
\* TTL by presence and by value, however the two records were constructed
C7_EqualsIsFieldEquality ==
    fnEq.called => (fnEq.eq <=> SameFields(fnEq.a, fnEq.b))

\* C8: for a kind-A spec whose address is present, with or without a ttl,
\* NewDNSRecordFromSpec returns a record of kind A with the declared domain,
\* the declared address as target and no TTL
C8_ARecordOmitsTTL ==
    (fnBuilt.called /\ fnSpec.Type = TypeA /\ ~fnSpec.TargetIP.nil)
    => /\ fnBuilt.err = ""
       /\ fnBuilt.rec.Type = TypeA
       /\ fnBuilt.rec.Domain = fnSpec.Domain
       /\ fnBuilt.rec.Target = fnSpec.TargetIP.val
       /\ IsNil(fnBuilt.rec.TTL)

\* C9: for a CNAME spec whose target is present, NewDNSRecordFromSpec
\* returns a record of kind CNAME with the declared domain and target, and
\* with the declared ttl, or none when none is declared
C9_CNameRecordKeepsTTL ==
    (fnBuilt.called /\ fnSpec.Type = TypeCName /\ ~fnSpec.Target.nil)
    => /\ fnBuilt.err = ""
       /\ fnBuilt.rec.Type = TypeCName
       /\ fnBuilt.rec.Domain = fnSpec.Domain
       /\ fnBuilt.rec.Target = fnSpec.Target.val
       /\ IsNil(fnBuilt.rec.TTL) = IsNil(fnSpec.TTL)
       /\ fnBuilt.rec.TTL.val = fnSpec.TTL.val

C9_Witness ==
    /\ fnBuilt.called
    /\ fnSpec.Type = TypeCName
    /\ fnSpec.Target = SomeStr(homelab)
    /\ fnSpec.Domain = foobar_de
    /\ ~IsNil(fnSpec.TTL)
    /\ fnBuilt.rec.TTL.val = 500

\* C10: NewDNSRecordFromSpec fails, returning no record, exactly when the
\* kind is A and the address is absent, or the kind is CNAME and the target
\* is absent, or the kind is neither A nor CNAME
C10_ValidationFailures ==
    fnBuilt.called
    => /\ (fnBuilt.err # "")
            <=> \/ fnSpec.Type = TypeA /\ fnSpec.TargetIP.nil
                \/ fnSpec.Type = TypeCName /\ fnSpec.Target.nil
                \/ fnSpec.Type \notin {TypeA, TypeCName}
       /\ (fnBuilt.err # "" <=> fnBuilt.rec = NoRecord)

C10_Witness ==
    /\ fnBuilt.called
    /\ fnSpec.Type = TypeCName
    /\ fnSpec.Target.nil
    /\ ~fnSpec.TargetIP.nil
    /\ fnBuilt.err # ""
    /\ fnBuilt.rec = NoRecord

\* C11: a record of kind A or CNAME, with or without a TTL, encoded with
\* CreateDNSRecord's key format and decoded with the parser of the same
\* collection, comes back equal in domain, target, kind and TTL (the TTL by
\* presence and by value)
C11_RoundTrip ==
    fnTrip.called
    => /\ fnTrip.status = "ok"
       /\ SameFields(fnTrip.decoded, fnTrip.rec)

-----------------------------------------------------------------------------
(* Properties of the client *)

Authenticates(e) == \E i \in 1..Len(e.calls) : e.calls[i].op = "Authenticate"

\* The requests of an operation that are not the POST /auth
OwnRequests(e) == SelectSeq(e.reqs, LAMBDA q : ~(q.method = "POST" /\ q.path = "auth"))

\* C16: an operation (list, create, delete, close) calls authenticate
\* exactly when no session id is held at that moment, right before the
\* request it is about to send and never while one is held; once an id is held it
\* stays the one held, every request carries it and none is sent twice; so
\* after the backend has dropped the session each later operation sends its
\* request with the stale id, fails, and neither authenticates nor retries
C16_LazyAuthentication ==
    \A n \in 1..Len(clLog) :
        LET e == clLog[n]
        IN  /\ Authenticates(e) <=> e.before = ""
            /\ n > 1 => e.before = clLog[n - 1].after
            /\ e.before # ""
               => /\ e.after = e.before
                  /\ e.reqs = OwnRequests(e)
                  /\ \A i \in 1..Len(e.reqs) : e.reqs[i].sid = e.before
            /\ Len(OwnRequests(e)) <= (IF e.op = "List" THEN 2 ELSE 1)
            /\ Len(e.reqs) - Len(OwnRequests(e)) = Len(e.calls)
            /\ \A i \in 1..Len(e.reqs) :
                  IF e.reqs[i].method = "POST" /\ e.reqs[i].path = "auth"
                  THEN /\ e.before = ""
                       /\ \A j \in 1..(i - 1) : e.reqs[j].sid = ""
                  ELSE e.reqs[i].sid = ""
                       => /\ i > 1
                          /\ e.reqs[i - 1].method = "POST"
                          /\ e.reqs[i - 1].path = "auth"
            /\ e.expired
               => /\ e.before # ""
                  /\ e.err
                  /\ Len(e.reqs) = 1

C16_Witness ==
    /\ Len(clLog) = 3
    /\ clLog[1].before = "" /\ clLog[1].after = IssuedSid /\ ~clLog[1].err
    /\ clLog[1].op = "Create"
    /\ ~clLog[1].expired
    /\ clLog[2].expired /\ clLog[2].op = "List" /\ clLog[2].err
    /\ clLog[3].expired /\ clLog[3].op = "Delete" /\ clLog[3].err
    /\ clLog[3].reqs[1].sid = IssuedSid
    /\ sid = IssuedSid

C18_CloseKeepsSid ==
    \A n \in 1..Len(clLog) :
        LET e == clLog[n]
        IN  e.op = "Close"
            => /\ e.before # "" => e.after = e.before
               /\ OwnRequests(e) # <<>>
                  => /\ OwnRequests(e)[1].method = "DELETE"
                     /\ OwnRequests(e)[1].path = "auth"
                     /\ OwnRequests(e)[1].sid = e.after
               /\ (n < Len(clLog) /\ OwnRequests(e) # <<>>)
                  => /\ ~Authenticates(clLog[n + 1])
                     /\ clLog[n + 1].reqs # <<>>
                     /\ \A i \in 1..Len(clLog[n + 1].reqs) :
                           clLog[n + 1].reqs[i].sid = e.after

C18_Witness ==
    /\ Len(clLog) = 3
    /\ clLog[1].op = "Close" /\ clLog[1].before = "" /\ clLog[1].err
    /\ clLog[1].after = IssuedSid
    /\ clLog[2].op = "Close" /\ ~clLog[2].err /\ clLog[2].after = IssuedSid
    /\ clLog[3].op = "List" /\ clLog[3].reqs[1].sid = IssuedSid

\* A cnameRecords line with a third segment that is not a run of digits
BadTTL(line) ==
    LET parts == Split(line, ",")
    IN  /\ Len(parts) = 3
        /\ ~(Len(parts[3]) > 0 /\ \A i \in 1..Len(parts[3]) : IsDigit(parts[3][i]))

\* C24: GetDNSRecords sends GET hosts and then GET cnameRecords; when the
\* first fails the second is not sent; when either fails, or a cnameRecords
\* line has a TTL segment that is not an integer, the call fails and returns
\* no record at all; when it succeeds it returns one A record per hosts line
\* followed by one CNAME record per cnameRecords line, in the order listed
C24_ListAllOrNothing ==
    \A n \in 1..Len(clLog) :
        LET e == clLog[n]
            own == OwnRequests(e)
            getHosts == Request("GET", "hosts", <<>>, e.after)
            getCNames == Request("GET", "cnameRecords", <<>>, e.after)
        IN  e.op = "List"
            => /\ own \in {<<>>, <<getHosts>>, <<getHosts, getCNames>>}
               /\ own = <<>> <=> e.calls = <<Call("Authenticate", NoRecord, <<>>, "err")>>
               /\ e.err => e.recs = <<>>
               /\ e.lo = "hostsBad" => (e.err /\ own = <<getHosts>>)
               /\ e.lo = "cnamesBad" => (e.err /\ own = <<getHosts, getCNames>>)
               /\ (e.lo = "ok" /\ \E k \in 1..Len(e.cnames) : BadTTL(e.cnames[k]))
                  => (e.err /\ own = <<getHosts, getCNames>>)
               /\ ~e.err
                  => /\ own = <<getHosts, getCNames>>
                     /\ Len(e.recs) = Len(e.hosts) + Len(e.cnames)
                     /\ \A i \in 1..Len(e.hosts) :
                           /\ e.recs[i].Type = TypeA
                           /\ AKey(e.recs[i].Domain, e.recs[i].Target) = e.hosts[i]
                           /\ IsNil(e.recs[i].TTL)
                     /\ \A j \in 1..Len(e.cnames) :
                           LET r == e.recs[Len(e.hosts) + j]
                           IN  /\ r.Type = TypeCName
                               /\ CNameKey(r.Domain, r.Target, r.TTL) = e.cnames[j]

C24_Witness ==
    /\ Len(clLog) = 3
    /\ \A n \in 1..3 : clLog[n].op = "List"
    /\ clLog[1].lo = "cnamesBad" /\ clLog[1].err /\ clLog[1].hosts # <<>>
    /\ clLog[1].after = IssuedSid
    /\ clLog[2].lo = "hostsBad" /\ clLog[2].err /\ Len(clLog[2].reqs) = 1
    /\ clLog[3].lo = "ok" /\ ~clLog[3].err
    /\ Len(clLog[3].recs) = 2
    /\ clLog[3].recs[1].Type = TypeA
    /\ ~IsNil(clLog[3].recs[2].TTL)

\* A listing that fails at a cnameRecords line with a malformed TTL
C24_WitnessBadTTL ==
    \E n \in 1..Len(clLog) :
        /\ clLog[n].op = "List"
        /\ clLog[n].lo = "ok"
        /\ clLog[n].err
        /\ clLog[n].hosts # <<>>
        /\ Len(clLog[n].reqs) = 2

====
